---------------------------- MODULE Spec2Model ----------------------------
(***************************************************************************)
(* A model of the Nanolab-Keithleys sweep procedures (src/procedures.py),  *)
(* the instrument facades they drive (src/devices.py) and the SweepPoints  *)
(* voltage sequences.                                                      *)
(*                                                                         *)
(* Two specifications share the module:                                    *)
(*   Spec        construction and execute() of Sweep, DualSweep, PicoSweep *)
(*               and PicoDualSweep, with the per-step measure() tasks      *)
(*               interleaved with the orchestration thread;                *)
(*   SpecPoints  SweepPoints generation and regen().                       *)
(***************************************************************************)
EXTENDS Integers, Sequences, FiniteSets, TLC

VARIABLES
    \* ---- SweepPoints object under regen (SpecPoints) ----
    pts,        \* the SweepPoints object: [data, scale]
    call,       \* the last regen call: [kwargs, outcome, before]
    \* ---- sweep orchestration (Spec) ----
    kind,       \* the class constructed: Sweep, DualSweep, PicoSweep, PicoDualSweep
    cfg,        \* the constructor arguments
    pc,         \* position of the orchestration thread
    mpc,        \* position inside measure(): index into the measure body
    soak,       \* self.soak, the explicit per-step delay
    meters,     \* the instruments, by role
    voltages,   \* self.voltages / self.primary_voltages, self.secondary_voltages
    df,         \* self.df / self.primary_df, self.secondary_df
    i, j,       \* loop indices of execute()
    tasks,      \* measure() calls in flight or finished, not yet dropped
    locals,     \* results fetched inside measure(): f1r, ...
    ret,        \* what execute() returned
    slept,      \* explicit soak slept since the step's last voltage was set
    hist,       \* observation counters of the run
    gen,        \* one call of SweepPoints(...): its arguments and what came back
    analysis,   \* an Analysis table: its columns' storage and its rows
    files,      \* the file system the Analysis table is read from and written to
    opcall      \* the last Analysis operation: arguments, outcome, what it returned

pointVars == <<pts, call>>
genVars == <<gen>>
analysisVars == <<analysis, files, opcall>>
libraryVars == <<pointVars, genVars, analysisVars>>
sweepVars == <<kind, cfg, pc, mpc, soak, meters, voltages, df, i, j, tasks,
               locals, ret, slept, hist>>
vars == <<pts, call, kind, cfg, pc, mpc, soak, meters, voltages, df, i, j,
          tasks, locals, ret, slept, hist, gen, analysis, files, opcall>>

---------------------------------------------------------------------------
(* Bounds of the model. *)
MaxPoints == 2      \* largest number of points of one sweep axis
MaxKwargs == 2      \* most keyword arguments in one regen call
MaxGenPoints == 4   \* largest count given to one call of SweepPoints(...)
MaxRuns == 2        \* most calls of execute() on one sweep object
MaxRows == 2        \* most rows of an Analysis table

---------------------------------------------------------------------------
(* Numbers.  A float is modelled exactly: a rational <<n, d>> in lowest    *)
(* terms, or an interior point of a geometric sequence.  A number is the   *)
(* record [a, b, k, m] standing for |a|^(1-k/m) * |b|^(k/m) with the sign  *)
(* of a; a rational q is [a |-> q, b |-> q, k |-> 0, m |-> 1]; m = 0 is    *)
(* NaN.                                                                    *)

Abs(x) == IF x < 0 THEN -x ELSE x

RECURSIVE Gcd(_, _)
Gcd(x, y) == IF y = 0 THEN x ELSE Gcd(y, x % y)

Norm(n, d) ==
    LET g == Gcd(Abs(n), Abs(d))
        s == IF d < 0 THEN -1 ELSE 1
    IN  <<(s * n) \div g, (s * d) \div g>>

Q(n, d) == [a |-> Norm(n, d), b |-> Norm(n, d), k |-> 0, m |-> 1]
Z(n) == Q(n, 1)
NaN == [a |-> <<0, 1>>, b |-> <<0, 1>>, k |-> 0, m |-> 0]

IsNaN(x) == x.m = 0
IsRat(x) == x.m = 1 /\ x.k = 0
Sign(x) == IF x.a[1] > 0 THEN 1 ELSE IF x.a[1] < 0 THEN -1 ELSE 0
IsZero(x) == IsRat(x) /\ x.a[1] = 0

\* start + idx * (stop - start) / div, for rationals start and stop
LinPoint(start, stop, idx, div) ==
    LET sn == start.a[1]  sd == start.a[2]
        en == stop.a[1]   ed == stop.a[2]
    IN  Q(sn * ed * div + idx * (en * sd - sn * ed), sd * ed * div)

\* linspace without its endpoint: num samples of step (stop - start) / num
linspace_NoEndpoint(start, stop, num) ==
    [idx \in 1..num |-> LinPoint(start, stop, idx - 1, num)]

\* numpy.linspace(start, stop, num): num evenly spaced samples, the last
\* one set to stop itself when num > 1; one sample is start.
linspace(start, stop, num) ==
    [idx \in 1..num |->
        IF num = 1 THEN start
        ELSE IF idx = num THEN stop
        ELSE LinPoint(start, stop, idx - 1, num - 1)]

\* numpy.geomspace(start, stop, num): samples evenly spaced on a log scale,
\* the endpoints set to start and stop themselves.  With endpoints of
\* opposite sign the logarithm is undefined and the interior is NaN.
GeoPoint(start, stop, idx, div) ==
    IF Sign(start) # Sign(stop) THEN NaN
    ELSE IF start = stop THEN start
    ELSE LET g == Gcd(idx, div)
         IN  [a |-> start.a, b |-> stop.a, k |-> idx \div g, m |-> div \div g]

geomspace(start, stop, num) ==
    [idx \in 1..num |->
        IF idx = 1 THEN start
        ELSE IF idx = num THEN stop
        ELSE GeoPoint(start, stop, idx - 1, num - 1)]

GeomspaceRaises(start, stop) == IsZero(start) \/ IsZero(stop)

---------------------------------------------------------------------------
(* SweepPoints (src/procedures.py:10-41).                                  *)

LinearNames == {"linear", "lin"}
LogNames == {"logarithmic", "log"}

\* SweepPoints.__new__: the array and its scale attribute, or the error
SweepPoints(start, end, points, scale) ==
    IF scale \in LinearNames
      THEN [err |-> "", data |-> linspace(start, end, points), scale |-> scale]
    ELSE IF scale \in LogNames
      THEN IF GeomspaceRaises(start, end)
             THEN [err |-> "ValueError", data |-> <<>>, scale |-> scale]
             ELSE [err |-> "", data |-> geomspace(start, end, points), scale |-> scale]
    ELSE [err |-> "ValueError", data |-> <<>>, scale |-> scale]

\* A keyword argument value: numbers for start and end, a count for points,
\* a name for scale.  One shape for all, so only the field its key names is
\* read.
Arg(key, num, cnt, name) == [key |-> key, num |-> num, cnt |-> cnt, name |-> name]

RegenKeys == {"start", "end", "points", "scale"}

\* the for loop of regen (lines 27-38) from position idx on
RECURSIVE RegenMerge(_, _, _)
RegenMerge(kwargs, idx, cur) ==
    IF idx > Len(kwargs) THEN cur
    ELSE LET kw == kwargs[idx] IN
         IF kw.key = "start" THEN RegenMerge(kwargs, idx + 1, [cur EXCEPT !.start = kw.num])
         ELSE IF kw.key = "end" THEN RegenMerge(kwargs, idx + 1, [cur EXCEPT !.end = kw.num])
         ELSE IF kw.key = "points" THEN RegenMerge(kwargs, idx + 1, [cur EXCEPT !.points = kw.cnt])
         ELSE IF kw.key = "scale" THEN RegenMerge(kwargs, idx + 1, [cur EXCEPT !.scale = kw.name])
         ELSE [cur EXCEPT !.err = "ValueError"]

\* self[:] = new[:] : an element-wise copy into the existing buffer; numpy
\* broadcasts a source of one element and refuses any other length mismatch
SliceAssign(old, new) ==
    IF Len(new) = Len(old) THEN [err |-> "", data |-> new]
    ELSE IF Len(new) = 1 THEN [err |-> "", data |-> [idx \in 1..Len(old) |-> new[1]]]
    ELSE [err |-> "ValueError", data |-> old]

\* regen with lines 40 and 41 exchanged: the scale is taken over before the
\* contents are copied
regen_ScaleFirst(self, kwargs) ==
    IF Len(self.data) = 0
      THEN [obj |-> self, outcome |-> "IndexError"]
    ELSE
      LET cur == [start |-> self.data[1], points |-> Len(self.data),
                  end |-> self.data[Len(self.data)], scale |-> self.scale,
                  err |-> ""]
          mrg == RegenMerge(kwargs, 1, cur)
      IN  IF mrg.err # "" THEN [obj |-> self, outcome |-> mrg.err]
          ELSE LET new == SweepPoints(mrg.start, mrg.end, mrg.points, mrg.scale) IN
               IF new.err # "" THEN [obj |-> self, outcome |-> new.err]
               ELSE LET asg == SliceAssign(self.data, new.data) IN
                    IF asg.err # ""
                      THEN [obj |-> [data |-> self.data, scale |-> new.scale],
                            outcome |-> asg.err]
                    ELSE [obj |-> [data |-> asg.data, scale |-> new.scale],
                          outcome |-> "ok"]

\* SweepPoints.regen: the object afterwards and how the call ended
regen(self, kwargs) ==
    IF Len(self.data) = 0
      THEN [obj |-> self, outcome |-> "IndexError"]          \* self[0]
    ELSE
      LET cur == [start |-> self.data[1], points |-> Len(self.data),
                  end |-> self.data[Len(self.data)], scale |-> self.scale,
                  err |-> ""]
          mrg == RegenMerge(kwargs, 1, cur)
      IN  IF mrg.err # "" THEN [obj |-> self, outcome |-> mrg.err]
          ELSE LET new == SweepPoints(mrg.start, mrg.end, mrg.points, mrg.scale) IN
               IF new.err # "" THEN [obj |-> self, outcome |-> new.err]
               ELSE LET asg == SliceAssign(self.data, new.data) IN
                    IF asg.err # "" THEN [obj |-> self, outcome |-> asg.err]
                    ELSE [obj |-> [data |-> asg.data, scale |-> new.scale],
                          outcome |-> "ok"]

---------------------------------------------------------------------------
(* Inputs of the SweepPoints specification.                                *)

PointValues == {Z(0), Z(1), Z(4), Z(-2)}
ScaleNames == {"linear", "lin", "logarithmic", "log", "cubic"}
PointCounts == 0..MaxPoints

KwargValues ==
    {Arg("start", v, 0, "") : v \in PointValues}
      \cup {Arg("end", v, 0, "") : v \in PointValues}
      \cup {Arg("points", Z(0), c, "") : c \in PointCounts}
      \cup {Arg("scale", Z(0), 0, s) : s \in ScaleNames}
      \cup {Arg("step", Z(1), 0, "")}

\* keyword arguments: an ordered mapping, no key twice
RECURSIVE KwargSeqs(_)
KwargSeqs(n) ==
    IF n = 0 THEN {<<>>}
    ELSE LET shorter == KwargSeqs(n - 1) IN
         shorter \cup
         {Append(kws, kw) : <<kws, kw>> \in
            {p \in shorter \X KwargValues :
                /\ Len(p[1]) = n - 1
                /\ \A x \in 1..Len(p[1]) : p[1][x].key # p[2].key}}

Constructed ==
    {[data |-> sp.data, scale |-> sp.scale] :
        sp \in {c \in {SweepPoints(s, e, n, sc) :
                         s \in PointValues, e \in PointValues,
                         n \in PointCounts, sc \in ScaleNames} : c.err = ""}}

NoCall == [kwargs |-> <<>>, outcome |-> "none", before |-> [data |-> <<>>, scale |-> ""]]

---------------------------------------------------------------------------
(* Instruments (src/devices.py).  An instrument is known by its role in    *)
(* the sweep: "primary" is Sweep.sourcemeter / primary_sourcemeter,        *)
(* "secondary" is secondary_sourcemeter, "ammeter" is the Keithley6485.    *)

Roles == {"primary", "secondary", "ammeter"}
SourceMeters == {"primary", "secondary"}
Columns == {"voltage", "voltage sd", "current", "current sd"}
AmmeterColumns == {"current", "current sd"}

\* an instrument nobody has connected to
Unopened ==
    [open |-> FALSE, written |-> FALSE, output |-> FALSE, target |-> Z(0),
     soak |-> 0, enables |-> 0, sets |-> 0, nMeas |-> 0, nDone |-> 0]

\* Keithley2400.__init__: open the resource, reset and configure it, output
\* off, source delay set to the soak it is given
Keithley2400(soak_) ==
    [open |-> TRUE, written |-> TRUE, output |-> FALSE, target |-> Z(0),
     soak |-> soak_, enables |-> 0, sets |-> 0, nMeas |-> 0, nDone |-> 0]

\* Keithley6485.__init__: open the resource, reset and configure it; soak is
\* a plain attribute that measure() sleeps
Keithley6485(soak_) ==
    [open |-> TRUE, written |-> TRUE, output |-> FALSE, target |-> Z(0),
     soak |-> soak_, enables |-> 0, sets |-> 0, nMeas |-> 0, nDone |-> 0]

\* One cell of a measurement record: the statistic `stat` that instrument
\* `meter` computed over its n-th acquisition, taken while the source-meter
\* targets were `at`.
Reading(meter, stat, n, at) == [meter |-> meter, stat |-> stat, n |-> n, at |-> at]
NoTargets == [r \in SourceMeters |-> Z(0)]
NaNCell == Reading("", "NaN", 0, NoTargets)

ColumnsOf(meter) == IF meter = "ammeter" THEN AmmeterColumns ELSE Columns

\* a measure() that returns the means and leaves the deviations out
MeasureRecord_MeansOnly(meter, n, at) ==
    [c \in ColumnsOf(meter) |->
        IF c \in {"voltage", "current"} THEN Reading(meter, c, n, at) ELSE NaNCell]

\* the dict that measure() returns
MeasureRecord(meter, n, at) == [c \in ColumnsOf(meter) |-> Reading(meter, c, n, at)]
NoRecord(meter) == [c \in ColumnsOf(meter) |-> NaNCell]

\* DataFrame(index=RangeIndex(stop=n), columns=[...]): n rows of NaN
EmptyRow == [c \in Columns |-> NaNCell]
EmptyFrame(n) == [x \in 1..n |-> EmptyRow]
NoFrames == [primary |-> <<>>, secondary |-> <<>>]

---------------------------------------------------------------------------
(* Construction of the sweeps (src/procedures.py:45-50, 76-84, 122-125,    *)
(* 137-140).                                                               *)

Kinds == {"Sweep", "DualSweep", "PicoSweep", "PicoDualSweep"}
IsDual(k) == k \in {"DualSweep", "PicoDualSweep"}
IsPico(k) == k \in {"PicoSweep", "PicoDualSweep"}

\* a = {True: soak, False: 0}
a(soak_) == [b \in BOOLEAN |-> IF b THEN soak_ ELSE 0]

\* mutant: the explicit delay taken from the wrong side of the table
ExplicitSoak_Swapped(soak_, azero) == a(soak_)[azero]

\* self.soak = a[not azero]
ExplicitSoak(soak_, azero) == a(soak_)[~azero]

\* mutant: the instrument is always given the soak
InstrumentSoak_Always(soak_, azero) == soak_

\* the soak handed to every instrument constructor: a[azero]
InstrumentSoak(soak_, azero) == a(soak_)[azero]

NoVoltages == [primary |-> <<>>, secondary |-> <<>>]
NoMeters == [r \in Roles |-> Unopened]

\* Sweep.__init__: what the constructor leaves behind, err set when it raised
SweepInit(c) ==
    LET sm == Keithley2400(InstrumentSoak(c.soak, c.azero))
        ms == [NoMeters EXCEPT !["primary"] = sm]
        v  == SweepPoints(c.p.start, c.p.end, c.p.n, c.p.scale)
    IN  IF v.err # ""
          THEN [err |-> v.err, soak |-> ExplicitSoak(c.soak, c.azero), meters |-> ms,
                voltages |-> NoVoltages, df |-> NoFrames]
          ELSE [err |-> "", soak |-> ExplicitSoak(c.soak, c.azero), meters |-> ms,
                voltages |-> [NoVoltages EXCEPT !.primary = v.data],
                df |-> [NoFrames EXCEPT !.primary = EmptyFrame(c.p.n)]]

\* DualSweep.__init__
DualSweepInit(c) ==
    LET pm == Keithley2400(InstrumentSoak(c.soak, c.azero))
        sm == Keithley2400(InstrumentSoak(c.soak, c.azero))
        ms == [NoMeters EXCEPT !["primary"] = pm, !["secondary"] = sm]
        pv == SweepPoints(c.p.start, c.p.end, c.p.n, c.p.scale)
        sv == SweepPoints(c.s.start, c.s.end, c.s.n, c.s.scale)
        failed == [err |-> "ValueError", soak |-> ExplicitSoak(c.soak, c.azero),
                   meters |-> ms, voltages |-> NoVoltages, df |-> NoFrames]
    IN  IF pv.err # "" THEN failed
        ELSE IF sv.err # "" THEN failed
        ELSE [err |-> "", soak |-> ExplicitSoak(c.soak, c.azero), meters |-> ms,
              voltages |-> [primary |-> pv.data, secondary |-> sv.data],
              df |-> [primary |-> EmptyFrame(c.p.n * c.s.n),
                      secondary |-> EmptyFrame(c.p.n * c.s.n)]]

\* PicoSweep.__init__ : Sweep.__init__, then the ammeter
PicoSweepInit(c) ==
    LET base == SweepInit(c) IN
    IF base.err # "" THEN base
    ELSE [base EXCEPT !.meters["ammeter"] = Keithley6485(InstrumentSoak(c.soak, c.azero))]

\* PicoDualSweep.__init__ : DualSweep.__init__, then the ammeter
PicoDualSweepInit(c) ==
    LET base == DualSweepInit(c) IN
    IF base.err # "" THEN base
    ELSE [base EXCEPT !.meters["ammeter"] = Keithley6485(InstrumentSoak(c.soak, c.azero))]

Constructor(k, c) ==
    CASE k = "Sweep" -> SweepInit(c)
      [] k = "DualSweep" -> DualSweepInit(c)
      [] k = "PicoSweep" -> PicoSweepInit(c)
      [] k = "PicoDualSweep" -> PicoDualSweepInit(c)

---------------------------------------------------------------------------
(* The bodies of the measure() methods, one entry per statement            *)
(* (src/procedures.py:55-56, 89-95, 127-133, 142-151).                     *)
(*   call     x = meter.measure() on the calling thread                    *)
(*   submit   f = executor.submit(meter.measure)                           *)
(*   result   f1r = f.result()                                             *)
(*   merge    f1r['current'], f1r['current sd'] = g.result().values()      *)
(*   store    table.iloc[index] = the fetched record f1r                   *)
(*   put      table.iloc[index] = f.result()                               *)
(*   exit     leaving the with block: ThreadPoolExecutor.shutdown(wait)    *)

Stmt(op, f, g, meter, table) == [op |-> op, f |-> f, g |-> g, meter |-> meter, table |-> table]

Sweep_measure ==
    << Stmt("call", "r", "", "primary", ""),
       Stmt("put", "r", "", "", "primary") >>

DualSweep_measure ==
    << Stmt("submit", "f1", "", "primary", ""),
       Stmt("submit", "f2", "", "secondary", ""),
       Stmt("put", "f1", "", "", "primary"),
       Stmt("put", "f2", "", "", "secondary"),
       Stmt("exit", "", "", "", "") >>

PicoSweep_measure ==
    << Stmt("submit", "f1", "", "primary", ""),
       Stmt("submit", "f2", "", "ammeter", ""),
       Stmt("result", "f1", "", "", ""),
       Stmt("merge", "f1", "f2", "", ""),
       Stmt("store", "f1", "", "", "primary"),
       Stmt("exit", "", "", "", "") >>

PicoDualSweep_measure ==
    << Stmt("submit", "f1", "", "primary", ""),
       Stmt("submit", "f2", "", "ammeter", ""),
       Stmt("submit", "f3", "", "secondary", ""),
       Stmt("result", "f1", "", "", ""),
       Stmt("merge", "f1", "f2", "", ""),
       Stmt("store", "f1", "", "", "primary"),
       Stmt("put", "f3", "", "", "secondary"),
       Stmt("exit", "", "", "", "") >>

MeasureBody(k) ==
    CASE k = "Sweep" -> Sweep_measure
      [] k = "DualSweep" -> DualSweep_measure
      [] k = "PicoSweep" -> PicoSweep_measure
      [] k = "PicoDualSweep" -> PicoDualSweep_measure

---------------------------------------------------------------------------
(* State of a sweep object and of one measure() call.                      *)

NoHist == [dfBefore |-> NoFrames,
           rowWrites |-> [primary |-> <<>>, secondary |-> <<>>],
           failedStep |-> -1,
           runs |-> 0, handed |-> <<>>]
NoConfig == [azero |-> FALSE, soak |-> 0,
             p |-> [start |-> Z(0), end |-> Z(0), n |-> 0, scale |-> ""],
             s |-> [start |-> Z(0), end |-> Z(0), n |-> 0, scale |-> ""]]

\* no call of SweepPoints(...) made, no Analysis table made
NoGen == [start |-> Z(0), end |-> Z(0), points |-> 0, scale |-> "",
          out |-> [err |-> "none", data |-> <<>>, scale |-> ""]]
NoTable == [dtype |-> "", cols |-> {}, rows |-> <<>>]
NoFiles == <<>>
NoOp == [op |-> "none", path |-> "", primary |-> FALSE, secondary |-> FALSE,
         inplace |-> FALSE, outcome |-> "none", before |-> NoTable, out |-> NoTable,
         io |-> 0, again |-> NoTable, disk |-> NoFiles]
GenIdle == gen = NoGen
AnalysisIdle == analysis = NoTable /\ files = NoFiles /\ opcall = NoOp

\* nothing constructed yet
Unconstructed ==
    /\ kind = "" /\ cfg = NoConfig /\ mpc = 0 /\ soak = 0
    /\ meters = NoMeters /\ voltages = NoVoltages /\ df = NoFrames
    /\ i = 0 /\ j = 0 /\ tasks = {} /\ locals = EmptyRow /\ ret = <<>>
    /\ slept = 0 /\ hist = NoHist

\* mutant: the inner loop's variable indexes the single sweep's table
StepIndex_WrongVariable == IF IsDual(kind) THEN i * Len(voltages.secondary) + j ELSE j

\* mutant: the flattened index strides by the primary length
StepIndex_PrimaryStride == IF IsDual(kind) THEN i * Len(voltages.primary) + j ELSE i

\* the flattened row index of the step, 0-based as in the source:
\* i for a single sweep, i * len(self.secondary_voltages) + j for a dual one
StepIndex == IF IsDual(kind) THEN i * Len(voltages.secondary) + j ELSE i

Targets == [r \in SourceMeters |-> meters[r].target]

\* mutant: result() and the join give up on a call that does not return
Finished_Timeout(t) == t.state \in {"done", "failed", "hung"}

Finished(t) == t.state \in {"done", "failed"}
Unfinished == {t \in tasks : ~Finished(t)}

\* mutant: shutdown(wait=False)
ExecutorJoined_NoWait == TRUE

\* ThreadPoolExecutor.__exit__ is shutdown(wait=True): it returns once every
\* submitted call has finished
ExecutorJoined == \A t \in tasks : Finished(t)

\* the call behind future f of the current step
TaskOf(f) == CHOOSE t \in tasks : t.f = f /\ t.step = StepIndex
HasTask(f) == \E t \in tasks : t.f = f /\ t.step = StepIndex

InMeasure == pc = "measure" /\ mpc \in 1..Len(MeasureBody(kind))
Current == MeasureBody(kind)[mpc]
UsesExecutor(k) == \E x \in 1..Len(MeasureBody(k)) : MeasureBody(k)[x].op = "exit"

---------------------------------------------------------------------------
(* Inputs of the sweep specification.                                      *)

\* start, end and scale of one axis: two that generate, three that
\* SweepPoints rejects (zero start, zero end, unknown scale)
AxisChoices ==
    { <<Z(0), Z(2), "linear">>, <<Z(1), Z(4), "log">>,
      <<Z(0), Z(2), "log">>, <<Z(-2), Z(0), "logarithmic">>,
      <<Z(1), Z(4), "cubic">> }
SoakValues == {0, 3}

Axes == {[start |-> r[1], end |-> r[2], n |-> n, scale |-> r[3]] :
            r \in AxisChoices, n \in PointCounts}

Configs(k) ==
    {[azero |-> az, soak |-> sk, p |-> p, s |-> s] :
        az \in BOOLEAN, sk \in SoakValues, p \in Axes,
        s \in IF IsDual(k) THEN Axes ELSE {NoConfig.s}}

---------------------------------------------------------------------------
(* The sweep specification: construction, execute(), the measure() calls.  *)

Init ==
    /\ pts = [data |-> <<>>, scale |-> ""]
    /\ call = NoCall
    /\ pc = "new"
    /\ Unconstructed
    /\ GenIdle /\ AnalysisIdle

\* Sweep(...), DualSweep(...), PicoSweep(...) or PicoDualSweep(...)
Construct ==
    /\ pc = "new"
    /\ \E k \in Kinds : \E c \in Configs(k) :
        LET r == Constructor(k, c) IN
        /\ kind' = k
        /\ cfg' = c
        /\ soak' = r.soak
        /\ meters' = r.meters
        /\ voltages' = r.voltages
        /\ df' = r.df
        /\ hist' = [hist EXCEPT !.rowWrites =
                      [primary |-> [x \in 1..Len(r.df.primary) |-> 0],
                       secondary |-> [x \in 1..Len(r.df.secondary) |-> 0]]]
        /\ pc' = IF r.err = "" THEN "ready" ELSE "init_raised"
    /\ UNCHANGED <<libraryVars, mpc, i, j, tasks, locals, ret, slept>>

\* output_enabled = True (beep first): lines 59-60, 98-101
EnableOutput ==
    /\ pc \in {"ready", "enable_s"}
    /\ LET m == IF pc = "ready" THEN "primary" ELSE "secondary" IN
       meters' = [meters EXCEPT ![m].output = TRUE, ![m].enables = @ + 1,
                                ![m].written = TRUE]
    /\ pc' = IF pc = "ready" /\ IsDual(kind) THEN "enable_s" ELSE "for_i"
    /\ i' = 0
    /\ UNCHANGED <<libraryVars, kind, cfg, mpc, soak, voltages, df, j, tasks,
                   locals, ret, slept, hist>>

\* the headers of the for loops: lines 61, 102, 105
LoopHeader ==
    /\ \/ /\ pc = "for_i"
          /\ pc' = IF i < Len(voltages.primary) THEN "set_p" ELSE "zero_p"
          /\ UNCHANGED <<i, j>>
       \/ /\ pc = "for_j"
          /\ IF j < Len(voltages.secondary)
               THEN pc' = "set_s" /\ UNCHANGED <<i, j>>
               ELSE pc' = "for_i" /\ i' = i + 1 /\ UNCHANGED j
    /\ UNCHANGED <<libraryVars, kind, cfg, mpc, soak, meters, voltages, df, tasks,
                   locals, ret, slept, hist>>

\* target_voltage = voltage: lines 63, 104, 107
SetVoltage ==
    /\ pc \in {"set_p", "set_s"}
    /\ LET m == IF pc = "set_p" THEN "primary" ELSE "secondary"
           v == IF pc = "set_p" THEN voltages.primary[i + 1]
                                ELSE voltages.secondary[j + 1]
       IN  meters' = [meters EXCEPT ![m].target = v, ![m].sets = @ + 1]
    /\ slept' = 0
    /\ IF pc = "set_p" /\ IsDual(kind)
         THEN pc' = "for_j" /\ j' = 0
         ELSE pc' = "sleep" /\ UNCHANGED j
    /\ UNCHANGED <<libraryVars, kind, cfg, mpc, soak, voltages, df, i, tasks,
                   locals, ret, hist>>

\* sleep(self.soak), then entering self.measure(...): lines 65-67, 109-111
Sleep ==
    /\ pc = "sleep"
    /\ slept' = slept + soak
    /\ pc' = "measure"
    /\ mpc' = 1
    /\ hist' = [hist EXCEPT !.dfBefore = df]
    /\ UNCHANGED <<libraryVars, kind, cfg, soak, meters, voltages, df, i, j, tasks,
                   locals, ret>>

\* what follows the statement at mpc: the next statement, or the return of
\* measure() to the loop of execute()
Advance ==
    IF mpc < Len(MeasureBody(kind))
      THEN mpc' = mpc + 1 /\ pc' = pc /\ UNCHANGED <<i, j>>
      ELSE /\ mpc' = 0
           /\ IF IsDual(kind) THEN pc' = "for_j" /\ j' = j + 1 /\ UNCHANGED i
                              ELSE pc' = "for_i" /\ i' = i + 1 /\ UNCHANGED j

\* mutant: execute() with its shutdown in a finally clause
Raise_ThenShutdown ==
    /\ pc' = IF UsesExecutor(kind) THEN "unwind" ELSE "zero_p"
    /\ mpc' = 0
    /\ hist' = [hist EXCEPT !.failedStep = StepIndex]
    /\ UNCHANGED <<i, j>>

\* an exception leaves measure(): inside a with block the executor is shut
\* down (joined) first; execute() has no handler
Raise ==
    /\ pc' = IF UsesExecutor(kind) THEN "unwind" ELSE "raised"
    /\ mpc' = 0
    /\ hist' = [hist EXCEPT !.failedStep = StepIndex]
    /\ UNCHANGED <<i, j>>

NewTask(f, meter, sync) ==
    [f |-> f, meter |-> meter, step |-> StepIndex, sync |-> sync,
     state |-> "queued", n |-> 0, at |-> NoTargets, soaked |-> 0,
     result |-> NoRecord(meter)]

\* executor.submit(meter.measure), or meter.measure() called directly
MeasureSubmit ==
    /\ InMeasure
    /\ Current.op \in {"submit", "call"}
    /\ tasks' = tasks \cup {NewTask(Current.f, Current.meter, Current.op = "call")}
    /\ Advance
    /\ UNCHANGED <<libraryVars, kind, cfg, soak, meters, voltages, df, locals, ret,
                   slept, hist>>

\* f1r = f1.result()
MeasureResult ==
    /\ InMeasure
    /\ Current.op = "result"
    /\ HasTask(Current.f)
    /\ Finished(TaskOf(Current.f))
    /\ IF TaskOf(Current.f).state = "done"
         THEN /\ locals' = TaskOf(Current.f).result
              /\ Advance
              /\ UNCHANGED hist
         ELSE Raise /\ UNCHANGED locals
    /\ UNCHANGED <<libraryVars, kind, cfg, soak, meters, voltages, df, tasks, ret,
                   slept>>

\* f1r['current'], f1r['current sd'] = f2.result().values()
MeasureMerge ==
    /\ InMeasure
    /\ Current.op = "merge"
    /\ HasTask(Current.g)
    /\ Finished(TaskOf(Current.g))
    /\ IF TaskOf(Current.g).state = "done"
         THEN /\ locals' = [locals EXCEPT
                              !["current"] = TaskOf(Current.g).result["current"],
                              !["current sd"] = TaskOf(Current.g).result["current sd"]]
              /\ Advance
              /\ UNCHANGED hist
         ELSE Raise /\ UNCHANGED locals
    /\ UNCHANGED <<libraryVars, kind, cfg, soak, meters, voltages, df, tasks, ret,
                   slept>>

\* table.iloc[index] = record
SetRow(table, record) ==
    /\ df' = [df EXCEPT ![table][StepIndex + 1] = record]
    /\ hist' = [hist EXCEPT !.rowWrites[table][StepIndex + 1] = @ + 1]

\* self.df.iloc[i] = f1r
MeasureStore ==
    /\ InMeasure
    /\ Current.op = "store"
    /\ SetRow(Current.table, locals)
    /\ Advance
    /\ UNCHANGED <<libraryVars, kind, cfg, soak, meters, voltages, tasks, locals,
                   ret, slept>>

\* table.iloc[index] = f.result()  /  = self.sourcemeter.measure()
MeasurePut ==
    /\ InMeasure
    /\ Current.op = "put"
    /\ HasTask(Current.f)
    /\ Finished(TaskOf(Current.f))
    /\ IF TaskOf(Current.f).state = "done"
         THEN /\ SetRow(Current.table, TaskOf(Current.f).result)
              /\ Advance
         ELSE Raise /\ UNCHANGED df
    /\ tasks' = IF TaskOf(Current.f).sync THEN tasks \ {TaskOf(Current.f)} ELSE tasks
    /\ UNCHANGED <<libraryVars, kind, cfg, soak, meters, voltages, locals, ret,
                   slept>>

\* the end of the with block, reached normally or by an exception
MeasureExit ==
    /\ \/ /\ InMeasure
          /\ Current.op = "exit"
          /\ ExecutorJoined
          /\ Advance
       \/ /\ pc = "unwind"
          /\ ExecutorJoined
          /\ pc' = "raised"
          /\ UNCHANGED <<mpc, i, j>>
    /\ tasks' = Unfinished
    /\ UNCHANGED <<libraryVars, kind, cfg, soak, meters, voltages, df, locals, ret,
                   slept, hist>>

\* mutant: the output is switched off before the target is zeroed
Shutdown_DisableFirst ==
    /\ pc \in {"zero_p", "off_p", "zero_s", "off_s"}
    /\ LET m == IF pc \in {"zero_p", "off_p"} THEN "primary" ELSE "secondary" IN
       IF pc \in {"off_p", "off_s"}
         THEN meters' = [meters EXCEPT ![m].target = Z(0), ![m].sets = @ + 1]
         ELSE meters' = [meters EXCEPT ![m].output = FALSE]
    /\ pc' = CASE pc = "zero_p" -> "off_p"
               [] pc = "off_p" -> IF IsDual(kind) THEN "zero_s" ELSE "return"
               [] pc = "zero_s" -> "off_s"
               [] pc = "off_s" -> "return"
    /\ UNCHANGED <<libraryVars, kind, cfg, mpc, soak, voltages, df, i, j, tasks,
                   locals, ret, slept, hist>>

\* target_voltage = 0 and output_enabled = False: lines 70-71, 114-117
Shutdown ==
    /\ pc \in {"zero_p", "off_p", "zero_s", "off_s"}
    /\ LET m == IF pc \in {"zero_p", "off_p"} THEN "primary" ELSE "secondary" IN
       IF pc \in {"zero_p", "zero_s"}
         THEN meters' = [meters EXCEPT ![m].target = Z(0), ![m].sets = @ + 1]
         ELSE meters' = [meters EXCEPT ![m].output = FALSE]
    /\ pc' = CASE pc = "zero_p" -> "off_p"
               [] pc = "off_p" -> IF IsDual(kind) THEN "zero_s" ELSE "return"
               [] pc = "zero_s" -> "off_s"
               [] pc = "off_s" -> "return"
    /\ UNCHANGED <<libraryVars, kind, cfg, mpc, soak, voltages, df, i, j, tasks,
                   locals, ret, slept, hist>>

\* DataFrame.add_prefix: every column label gets the prefix
AddPrefix(frame, prefix) ==
    [x \in 1..Len(frame) |->
        [c \in {prefix \o col : col \in DOMAIN frame[x]} |->
            frame[x][CHOOSE col \in DOMAIN frame[x] : prefix \o col = c]]]

\* DataFrame.join on the shared RangeIndex: the left rows, each with the
\* columns of the right row of the same index
Join(left, right) ==
    [x \in 1..Len(left) |->
        IF x \in 1..Len(right) THEN left[x] @@ right[x] ELSE left[x]]

\* return self.df  /  return self.primary_df.join(...add_prefix('secondary '))
Return ==
    /\ pc = "return"
    /\ ret' = IF IsDual(kind)
                THEN Join(df.primary, AddPrefix(df.secondary, "secondary "))
                ELSE df.primary
    /\ hist' = [hist EXCEPT !.runs = @ + 1,
                            !.handed = IF hist.runs = 0 THEN ret' ELSE @]
    /\ pc' = "returned"
    /\ UNCHANGED <<libraryVars, kind, cfg, mpc, soak, meters, voltages, df, i, j,
                   tasks, locals, slept>>

---------------------------------------------------------------------------
(* One measure() call on an instrument (src/devices.py:87-102, 146-162),   *)
(* run by a pool thread or by the caller.                                  *)

UpdateTask(t, u) == tasks' = (tasks \ {t}) \cup {u}

\* the instrument's own delay, then the acquisition starts: the 2400 applies
\* its source delay after 'initiate', the 6485 facade sleeps self.soak first
MeterStart ==
    \E t \in tasks :
        /\ t.state = "queued"
        /\ meters' = [meters EXCEPT ![t.meter].nMeas = @ + 1]
        /\ UpdateTask(t, [t EXCEPT !.state = "waiting",
                                   !.n = meters[t.meter].nMeas + 1,
                                   !.at = Targets,
                                   !.soaked = slept + meters[t.meter].soak])
        /\ UNCHANGED <<libraryVars, kind, cfg, pc, mpc, soak, voltages, df, i, j,
                       locals, ret, slept, hist>>

\* the service request arrives, mean and sd are read, the buffer is
\* cleared, the record is returned
MeterFinish ==
    \E t \in tasks :
        /\ t.state = "waiting"
        /\ UpdateTask(t, [t EXCEPT !.state = "done",
                                   !.result = MeasureRecord(t.meter, t.n, t.at)])
        /\ meters' = [meters EXCEPT ![t.meter].nDone = @ + 1]
        /\ UNCHANGED <<libraryVars, kind, cfg, pc, mpc, soak, voltages, df,
                       i, j, locals, ret, slept, hist>>

\* an instrument failure: a write, the wait or a query raises
MeterFail ==
    \E t \in tasks :
        /\ t.state \in {"queued", "waiting"}
        /\ UpdateTask(t, [t EXCEPT !.state = "failed"])
        /\ UNCHANGED <<libraryVars, kind, cfg, pc, mpc, soak, meters, voltages, df,
                       i, j, locals, ret, slept, hist>>

Next ==
    \/ Construct
    \/ EnableOutput
    \/ LoopHeader
    \/ SetVoltage
    \/ Sleep
    \/ MeasureSubmit
    \/ MeasureResult
    \/ MeasureMerge
    \/ MeasureStore
    \/ MeasurePut
    \/ MeasureExit
    \/ Shutdown
    \/ Return
    \/ MeterStart
    \/ MeterFinish
    \/ MeterFail

Spec == Init /\ [][Next]_vars

---------------------------------------------------------------------------
(* The sweep specification with execute() called again on the same object: *)
(* nothing in execute() resets the object, the call starts from the state  *)
(* the last one left.                                                      *)

\* execute() once more after it has returned
Reexecute ==
    /\ pc = "returned"
    /\ hist.runs < MaxRuns
    /\ pc' = "ready"
    /\ UNCHANGED <<libraryVars, kind, cfg, mpc, soak, meters, voltages, df, i, j,
                   tasks, locals, ret, slept, hist>>

NextRerun == Next \/ Reexecute

SpecRerun == Init /\ [][NextRerun]_vars

---------------------------------------------------------------------------
(* The SweepPoints specification: regen() on a constructed sequence.       *)
(* Every object regen leaves is again one that construction produces       *)
(* (RegenClosed), so one call from each constructed object covers the      *)
(* calls of every run.                                                     *)

InitPoints ==
    /\ pts \in Constructed
    /\ call = NoCall
    /\ pc = "off"
    /\ Unconstructed
    /\ GenIdle /\ AnalysisIdle

\* one call of regen on the object
Regen ==
    /\ call.outcome = "none"
    /\ \E kwargs \in KwargSeqs(MaxKwargs) :
        LET r == regen(pts, kwargs) IN
        /\ pts' = r.obj
        /\ call' = [kwargs |-> kwargs, outcome |-> r.outcome, before |-> pts]
    /\ UNCHANGED <<sweepVars, genVars, analysisVars>>

NextPoints == Regen

SpecPoints == InitPoints /\ [][NextPoints]_vars

RegenClosed == pts \in Constructed

---------------------------------------------------------------------------
(* Properties of the sweeps.                                               *)

Constructing == pc \in {"new", "off", "init_raised"}
Built == ~Constructing
UsedSourceMeters == IF IsDual(kind) THEN {"primary", "secondary"} ELSE {"primary"}
UsedMeters == UsedSourceMeters \cup (IF IsPico(kind) THEN {"ammeter"} ELSE {})
Steps == IF IsDual(kind) THEN Len(voltages.primary) * Len(voltages.secondary)
                         ELSE Len(voltages.primary)
StepTasks == {t \in tasks : t.step = StepIndex}
InLoop == pc \in {"for_i", "set_p", "for_j", "set_s", "sleep", "measure", "unwind"}

\* C1: in DualSweep.execute both measure() calls of a step are issued
\* before either result is awaited, and neither table row of the step is
\* written until both calls have completed.
C1_RowsWrittenAfterBothComplete ==
    (kind = "DualSweep" /\ pc \in {"measure", "unwind"}) =>
        /\ (pc = "measure" /\ mpc >= 3 /\ Current.op = "put") =>
              {t.f : t \in StepTasks} = {"f1", "f2"}
        /\ \A tab \in {"primary", "secondary"} :
              hist.rowWrites[tab][StepIndex + 1] > 0 =>
                  \A t \in StepTasks : Finished(t)

\* C2: execute() enables every source-meter output once, before the first
\* target voltage is set; no output is off while the loop runs; on normal
\* return every source-meter has target 0 and its output off; and an
\* output is only ever switched off while its target is 0.
C2_EnabledOnceBeforeFirstSet ==
    Built =>
        /\ \A m \in UsedSourceMeters : meters[m].enables <= 1
        /\ (\E m \in UsedSourceMeters : meters[m].sets > 0) =>
              \A m \in UsedSourceMeters : meters[m].enables = 1
        /\ InLoop => \A m \in UsedSourceMeters : meters[m].output
        /\ pc = "returned" =>
              \A m \in UsedSourceMeters :
                  meters[m].target = Z(0) /\ ~meters[m].output

C2_ZeroBeforeDisable ==
    \A m \in SourceMeters :
        (meters[m].output /\ ~meters'[m].output) =>
            (meters[m].target = Z(0) /\ meters'[m].target = Z(0))

C2_OutputLifecycle == [] C2_EnabledOnceBeforeFirstSet /\ [][C2_ZeroBeforeDisable]_vars

C2_Witness ==
    /\ kind = "PicoDualSweep" /\ pc = "returned"
    /\ meters["primary"].sets >= 2 /\ meters["secondary"].sets >= 2
    /\ \A m \in UsedSourceMeters : ~meters[m].output /\ meters[m].enables = 1

\* C3: Sweep.execute takes the voltages in order: row x holds the x-th
\* record measured, taken after the explicit soak while the target was
\* voltages[x]; rows of steps not yet done are empty; each step does one
\* measure(); on return the table has len(voltages) rows, all populated.
SweepRecord(x) ==
    MeasureRecord("primary", x, [NoTargets EXCEPT !["primary"] = voltages.primary[x]])

C3_SweepInOrder ==
    (kind = "Sweep" /\ Built) =>
        /\ Len(df.primary) = Len(voltages.primary)
        /\ \A x \in 1..Len(df.primary) :
              /\ df.primary[x] = IF x <= i THEN SweepRecord(x) ELSE EmptyRow
              /\ hist.rowWrites.primary[x] = IF x <= i THEN 1 ELSE 0
        /\ meters["primary"].nMeas \in {i, i + 1}
        /\ \A t \in tasks :
              /\ t.step = i /\ slept = soak
              /\ t.state \in {"waiting", "done"} =>
                    t.n = i + 1 /\ t.at["primary"] = voltages.primary[i + 1]
        /\ pc = "returned" =>
              /\ i = Len(voltages.primary)
              /\ ret = df.primary
              /\ meters["primary"].nMeas = Len(voltages.primary)

C3_Witness ==
    /\ kind = "Sweep" /\ pc = "returned" /\ Len(ret) = MaxPoints
    /\ ret[MaxPoints] = SweepRecord(MaxPoints)
    /\ ret[1] # ret[MaxPoints]

\* C4: DualSweep.execute visits the steps in row-major order: the records
\* measured while the targets were primary[x] and secondary[y] are row
\* x*S+y of both tables, every row is written exactly once, and the table
\* returned has the primary columns unprefixed and the secondary columns
\* prefixed with 'secondary '.
DualRecord(meter, x, y) ==
    MeasureRecord(meter, x * Len(voltages.secondary) + y + 1,
                  [primary |-> voltages.primary[x + 1],
                   secondary |-> voltages.secondary[y + 1]])

\* steps of the dual loop already completed (j is stale between the end of
\* an inner loop and the start of the next)
DualStepsDone ==
    IF pc \in {"for_j", "set_s", "sleep", "measure", "unwind", "raised"}
      THEN i * Len(voltages.secondary) + j
      ELSE i * Len(voltages.secondary)

C4_DualRowMajor ==
    (kind = "DualSweep" /\ Built) =>
        /\ Len(df.primary) = Steps /\ Len(df.secondary) = Steps
        /\ \A x \in 0..(Len(voltages.primary) - 1) :
           \A y \in 0..(Len(voltages.secondary) - 1) :
              LET row == x * Len(voltages.secondary) + y + 1 IN
              /\ df.primary[row] \in {EmptyRow, DualRecord("primary", x, y)}
              /\ df.secondary[row] \in {EmptyRow, DualRecord("secondary", x, y)}
              /\ row <= DualStepsDone =>
                    /\ df.primary[row] = DualRecord("primary", x, y)
                    /\ df.secondary[row] = DualRecord("secondary", x, y)
              /\ row > DualStepsDone + 1 =>
                    df.primary[row] = EmptyRow /\ df.secondary[row] = EmptyRow
        /\ \A row \in 1..Steps :
              hist.rowWrites.primary[row] <= 1 /\ hist.rowWrites.secondary[row] <= 1
        /\ pc = "returned" =>
              /\ Len(ret) = Steps
              /\ \A row \in 1..Steps :
                    /\ hist.rowWrites.primary[row] = 1
                    /\ hist.rowWrites.secondary[row] = 1
                    /\ DOMAIN ret[row] =
                          Columns \cup {"secondary voltage", "secondary voltage sd",
                                        "secondary current", "secondary current sd"}
                    /\ \A c \in Columns :
                          /\ ret[row][c] = df.primary[row][c]
                          /\ ret[row]["secondary " \o c] = df.secondary[row][c]
                          /\ ret[row][c].meter = "primary"
                          /\ ret[row]["secondary " \o c].meter = "secondary"

C4_Witness ==
    /\ kind = "DualSweep" /\ pc = "returned"
    /\ Len(voltages.primary) = MaxPoints /\ Len(voltages.secondary) = MaxPoints
    /\ ret[MaxPoints + 1]["secondary voltage"] =
          DualRecord("secondary", 1, 0)["voltage"]

\* C5: no cross-step concurrency in DualSweep, PicoSweep, PicoDualSweep:
\* every measure() task belongs to the step being measured, none is in
\* flight while the orchestration is anywhere but inside that step's
\* measure() (so no voltage is set and no later task starts meanwhile), and
\* no instrument has two measure() calls in flight.
C5_NoCrossStepConcurrency ==
    (Built /\ UsesExecutor(kind)) =>
        /\ \A t \in tasks : pc \in {"measure", "unwind"} /\ t.step = StepIndex
        /\ \A t1 \in Unfinished : \A t2 \in Unfinished :
              t1.meter = t2.meter => t1 = t2
        /\ \A m \in UsedMeters :
              meters[m].nMeas <= (IF IsDual(kind) THEN DualStepsDone ELSE i) + 1

C5_Witness ==
    /\ kind = "PicoDualSweep" /\ pc = "measure" /\ StepIndex >= 1
    /\ {t.meter : t \in Unfinished} = Roles

\* C6: when a measure() fails at step k the error propagates, and the
\* tables still hold the records of steps 0..k-1 unchanged with every row
\* from k onward empty.
C6_FailureLeavesCompletedPrefix ==
    pc = "raised" =>
        /\ hist.failedStep = StepIndex
        /\ df = hist.dfBefore
        /\ \A tab \in {"primary", "secondary"} : \A row \in 1..Len(df[tab]) :
              IF row > hist.failedStep THEN df[tab][row] = EmptyRow
                                       ELSE df[tab][row] # EmptyRow

\* C7: when constructing a sweep fails with a configuration error, no
\* instrument connection has been opened and no command has been written.
C7_ConfigErrorBeforeSideEffects ==
    pc = "init_raised" =>
        \A m \in Roles : ~meters[m].open /\ ~meters[m].written

\* C8 as stated: with auto-zero on, the explicit per-step delay is the
\* configured soak and the instrument delay is 0; with auto-zero off, the
\* explicit delay is 0 and the instrument delay is the configured soak.
C8_AsStated ==
    Built =>
        \A m \in UsedSourceMeters :
            IF cfg.azero THEN soak = cfg.soak /\ meters[m].soak = 0
                         ELSE soak = 0 /\ meters[m].soak = cfg.soak

\* C8 (amended): with auto-zero on, the explicit per-step delay is 0 and
\* the instrument delay is the configured soak; with auto-zero off, the
\* explicit delay is the configured soak and the instrument delay is 0.
C8_SoakPolicy ==
    Built =>
        \A m \in UsedSourceMeters :
            IF cfg.azero THEN soak = 0 /\ meters[m].soak = cfg.soak
                         ELSE soak = cfg.soak /\ meters[m].soak = 0

C8_Witness ==
    /\ kind = "Sweep" /\ pc = "ready" /\ cfg.azero /\ cfg.soak = 3
    /\ soak = 0 /\ meters["primary"].soak = 3

\* C9: the soak is counted once: of the explicit delay and each
\* instrument's own delay one is the configured soak and the other 0, and
\* every acquisition (the ammeter's too) starts after exactly the
\* configured soak has passed since the step's voltage was set.
C9_SoakCountedOnce ==
    Built =>
        /\ \A m \in UsedMeters :
              /\ soak + meters[m].soak = cfg.soak
              /\ soak = 0 \/ meters[m].soak = 0
        /\ \A t \in tasks :
              t.state \in {"waiting", "done"} => t.soaked = cfg.soak

C9_Witness ==
    /\ kind = "PicoDualSweep" /\ cfg.azero /\ cfg.soak = 3
    /\ \E t \in tasks : t.meter = "ammeter" /\ t.state = "done" /\ t.soaked = 3
    /\ \E t \in tasks : t.meter = "secondary" /\ t.state = "waiting" /\ t.soaked = 3

---------------------------------------------------------------------------
(* Properties of SweepPoints.regen.                                        *)

Given(key) == \E x \in 1..Len(call.kwargs) : call.kwargs[x].key = key
ValueOf(key) == call.kwargs[CHOOSE x \in 1..Len(call.kwargs) : call.kwargs[x].key = key]

\* the parameters of the call merged with the values the sequence had
MergedParameters ==
    [start |-> IF Given("start") THEN ValueOf("start").num ELSE call.before.data[1],
     end |-> IF Given("end") THEN ValueOf("end").num
             ELSE call.before.data[Len(call.before.data)],
     points |-> IF Given("points") THEN ValueOf("points").cnt ELSE Len(call.before.data),
     scale |-> IF Given("scale") THEN ValueOf("scale").name ELSE call.before.scale]

Generated ==
    SweepPoints(MergedParameters.start, MergedParameters.end,
                MergedParameters.points, MergedParameters.scale)

\* C10: regen with any subset of the keys start, end, points, scale, whose
\* merged parameters generate a sequence, succeeds and leaves in the object
\* exactly that sequence: its length the merged count, its scale the
\* merged scale.
C10_RegenHoldsGenerated ==
    (/\ call.outcome # "none"
     /\ Len(call.before.data) > 0
     /\ \A x \in 1..Len(call.kwargs) : call.kwargs[x].key \in RegenKeys
     /\ Generated.err = "") =>
        /\ call.outcome = "ok"
        /\ pts.data = Generated.data
        /\ Len(pts.data) = MergedParameters.points
        /\ pts.scale = MergedParameters.scale

UnknownKeyGiven == \E x \in 1..Len(call.kwargs) : call.kwargs[x].key \notin RegenKeys

\* C11: regen replaces contents and scale together or not at all.  A call
\* that fails (an unknown key, alone or before or after valid keys; merged
\* parameters that generation rejects; a sequence that does not fit the
\* object) leaves contents and scale exactly as they were before the call;
\* a call that succeeds leaves the new scale with the new contents.  An
\* unknown key and rejected parameters always make the call fail.
C11_RegenAllOrNothing ==
    call.outcome # "none" =>
        /\ call.outcome # "ok" => pts = call.before
        /\ call.outcome = "ok" =>
              /\ pts.scale = Generated.scale
              /\ pts.data = SliceAssign(call.before.data, Generated.data).data
        /\ (Len(call.before.data) > 0 /\ UnknownKeyGiven) => call.outcome = "ValueError"
        /\ (Len(call.before.data) > 0 /\ ~UnknownKeyGiven /\ Generated.err # "") =>
              call.outcome = Generated.err

\* a failed call that gave a new scale and a count the object cannot take
C11_Witness ==
    /\ call.outcome = "ValueError"
    /\ Given("scale") /\ Given("points") /\ ~UnknownKeyGiven
    /\ ValueOf("scale").name # call.before.scale
    /\ Generated.err = ""
    /\ Len(call.before.data) = 2
    /\ pts = call.before

---------------------------------------------------------------------------
(* The generation specification: one call SweepPoints(start, end, points,  *)
(* scale) with arguments from bounded sets.                                *)

GenCounts == 0..MaxGenPoints

InitGen ==
    /\ gen \in {[start |-> s, end |-> e, points |-> n, scale |-> sc, out |-> NoGen.out] :
                  s \in PointValues, e \in PointValues, n \in GenCounts, sc \in ScaleNames}
    /\ pts = [data |-> <<>>, scale |-> ""]
    /\ call = NoCall
    /\ pc = "off"
    /\ Unconstructed
    /\ AnalysisIdle

\* SweepPoints(start, end, points, scale)
Generate ==
    /\ gen.out.err = "none"
    /\ gen' = [gen EXCEPT !.out = SweepPoints(gen.start, gen.end, gen.points, gen.scale)]
    /\ UNCHANGED <<pointVars, sweepVars, analysisVars>>

NextGen == Generate

SpecGen == InitGen /\ [][NextGen]_vars

---------------------------------------------------------------------------
(* Order and differences of numbers.                                       *)

RECURSIVE Pow(_, _)
Pow(x, n) == IF n = 0 THEN 1 ELSE x * Pow(x, n - 1)

Lcm(x, y) == (x * y) \div Gcd(x, y)

\* |x|^e as a fraction, for e a multiple of x.m
AbsPow(x, e) ==
    LET f == e \div x.m IN
    <<Pow(Abs(x.a[1]), (x.m - x.k) * f) * Pow(Abs(x.b[1]), x.k * f),
      Pow(x.a[2], (x.m - x.k) * f) * Pow(x.b[2], x.k * f)>>

FracLess(p, q) == p[1] * q[2] < q[1] * p[2]

\* x < y for floats: never true of NaN
Less(x, y) ==
    IF IsNaN(x) \/ IsNaN(y) THEN FALSE
    ELSE IF Sign(x) # Sign(y) THEN Sign(x) < Sign(y)
    ELSE IF Sign(x) = 0 THEN FALSE
    ELSE LET e == Lcm(x.m, y.m) IN
         IF Sign(x) > 0 THEN FracLess(AbsPow(x, e), AbsPow(y, e))
                        ELSE FracLess(AbsPow(y, e), AbsPow(x, e))

\* x - y for rationals
Minus(x, y) == Q(x.a[1] * y.a[2] - y.a[1] * x.a[2], x.a[2] * y.a[2])

---------------------------------------------------------------------------
(* Properties of SweepPoints generation.                                   *)

Returned == gen.out.err = ""
Out == gen.out.data

StrictlyMonotonic(seq, first, last) ==
    \A x \in 1..(Len(seq) - 1) :
        IF Less(first, last) THEN Less(seq[x], seq[x + 1])
        ELSE IF Less(last, first) THEN Less(seq[x + 1], seq[x])
        ELSE FALSE

ConstantDifferences(seq) ==
    \A x \in 1..(Len(seq) - 2) :
        Minus(seq[x + 1], seq[x]) = Minus(seq[x + 2], seq[x + 1])

GenerationFails ==
    /\ (gen.out.err # "none" /\ gen.scale \in LogNames
          /\ (IsZero(gen.start) \/ IsZero(gen.end))) => gen.out.err = "ValueError"
    /\ (gen.out.err # "none" /\ gen.scale \notin LinearNames \cup LogNames) =>
          gen.out.err = "ValueError"

\* C12 as stated: every sequence generation returns has length count, first
\* element start and last element end, values strictly monotonic from start
\* to end (linear: constant successive differences); log fails on a zero
\* endpoint and an unrecognized policy fails.
C12_AsStated ==
    /\ Returned =>
        /\ Len(Out) = gen.points
        /\ Len(Out) >= 1 => Out[1] = gen.start /\ Out[Len(Out)] = gen.end
        /\ StrictlyMonotonic(Out, gen.start, gen.end)
        /\ gen.scale \in LinearNames => ConstantDifferences(Out)
    /\ GenerationFails

\* C12 amended: the length is the count; with one point or more the first
\* element is start; with two or more the last is end, and when start and
\* end differ (log: and have one sign) the values are strictly monotonic
\* from start to end, for linear with constant successive differences; log
\* fails on a zero endpoint and an unrecognized policy fails.
C12_SequenceShape ==
    /\ Returned =>
        /\ Len(Out) = gen.points
        /\ Len(Out) >= 1 => Out[1] = gen.start
        /\ Len(Out) >= 2 => Out[Len(Out)] = gen.end
        /\ (/\ Len(Out) >= 2
            /\ gen.start # gen.end
            /\ gen.scale \in LogNames => Sign(gen.start) = Sign(gen.end)) =>
              StrictlyMonotonic(Out, gen.start, gen.end)
        /\ gen.scale \in LinearNames => ConstantDifferences(Out)
    /\ GenerationFails

\* a descending logarithmic sequence with interior points
C12_Witness ==
    /\ Returned
    /\ gen.scale = "log" /\ gen.points = MaxGenPoints
    /\ gen.start = Z(4) /\ gen.end = Z(1)
    /\ Less(Out[3], Out[2])

---------------------------------------------------------------------------
(* Properties of the returned table.                                       *)

\* The contents now of the table the first execute() returned.  Sweep and
\* PicoSweep return self.df, the object execute() writes its rows to; the
\* dual sweeps return the new table join() made.
HandedTable == IF IsDual(kind) THEN hist.handed ELSE df.primary

\* C13: once execute() has returned a table, nothing done later with the
\* same sweep object, a second execute() in particular, changes the contents
\* of that table.
C13_ReturnedTableKeepsContents ==
    hist.runs >= 1 => HandedTable = hist.handed

---------------------------------------------------------------------------
(* Properties of the sweeps with an ammeter.                               *)

\* the source-meter targets of the step whose rows have index row - 1
StepTargets(row) ==
    IF IsDual(kind)
      THEN [primary |-> voltages.primary[((row - 1) \div Len(voltages.secondary)) + 1],
            secondary |-> voltages.secondary[((row - 1) % Len(voltages.secondary)) + 1]]
      ELSE [NoTargets EXCEPT !["primary"] = voltages.primary[row]]

\* voltage and voltage sd of the primary source-meter's measure() of the
\* step, current and current sd of the ammeter's measure() of the step
PicoRecord(row) ==
    [c \in Columns |->
        Reading(IF c \in AmmeterColumns THEN "ammeter" ELSE "primary",
                c, row, StepTargets(row))]

\* C18: in PicoSweep and PicoDualSweep every recorded primary row has its
\* voltage and voltage sd from the source-meter's measure() of that step and
\* its current and current sd from the ammeter's measure() of the same
\* step, and it is stored only after both (PicoDualSweep: all three)
\* measure() calls of the step have completed.
C18_PicoRowAfterAllComplete ==
    (IsPico(kind) /\ Built) =>
        /\ \A row \in 1..Len(df.primary) :
              df.primary[row] \in {EmptyRow, PicoRecord(row)}
        /\ (pc \in {"measure", "unwind"} /\ hist.rowWrites.primary[StepIndex + 1] > 0) =>
              /\ {t.meter : t \in StepTasks} = UsedMeters
              /\ \A t \in StepTasks : t.state = "done"

---------------------------------------------------------------------------
(* Properties of the stored rows.                                          *)

\* the instrument whose measure() fills column c of a row of table tab
MeterOfColumn(tab, c) ==
    IF tab = "secondary" THEN "secondary"
    ELSE IF IsPico(kind) /\ c \in AmmeterColumns THEN "ammeter"
    ELSE "primary"

\* every field of the row is the statistic of its column, taken by the
\* column's instrument in its measure() call of the row's step, and that
\* call ran to its end
CompleteRecord(tab, row) ==
    \A c \in Columns :
        LET cell == df[tab][row][c] IN
        /\ cell # NaNCell
        /\ cell.stat = c
        /\ cell.meter = MeterOfColumn(tab, c)
        /\ cell.n = row
        /\ cell.n <= meters[cell.meter].nDone

\* C20: no partial record is ever stored.  In every reachable state of every
\* sweep variant, also after an instrument failure in any measure() call,
\* each row of each result table is entirely empty or holds all fields of
\* one record made only from measure() calls that ran their full handshake.
C20_NoPartialRecord ==
    Built =>
        \A tab \in {"primary", "secondary"} : \A row \in 1..Len(df[tab]) :
            df[tab][row] = EmptyRow \/ CompleteRecord(tab, row)

\* the secondary source-meter failed after the primary row was stored
C20_Witness ==
    /\ kind = "PicoDualSweep" /\ pc = "unwind"
    /\ hist.failedStep = 1
    /\ df.primary[1] # EmptyRow /\ df.secondary[1] # EmptyRow
    /\ df.primary[2] # EmptyRow /\ df.secondary[2] = EmptyRow
    /\ \E t \in tasks : t.meter = "secondary" /\ t.state = "failed"

---------------------------------------------------------------------------
(* Analysis (src/data_analysis.py).  A cell value is [op, p]: op "rat" is  *)
(* the fraction p in lowest terms; "inf", "-inf", "nan" are the float      *)
(* specials; "ln" and "sqrt", "-sqrt" are the logarithm and the signed     *)
(* square root of the fraction p, kept unevaluated; "None" is Python's     *)
(* None; an exception raised while a value is computed is a value whose    *)
(* op is the exception's name.                                             *)

Val(op, p) == [op |-> op, p |-> p]
Rat(n, d) == Val("rat", Norm(n, d))
Float(n) == Rat(n, 1)
Inf == Val("inf", <<0, 1>>)
NegInf == Val("-inf", <<0, 1>>)
FloatNaN == Val("nan", <<0, 1>>)
None == Val("None", <<0, 1>>)
Exception(name) == Val(name, <<0, 1>>)

Exceptions == {"ZeroDivisionError", "ValueError"}
Raised(x) == x.op \in Exceptions
IsInfinite(x) == x.op \in {"inf", "-inf"}
SignOf(x) ==
    IF x.op \in {"inf", "sqrt"} THEN 1
    ELSE IF x.op \in {"-inf", "-sqrt"} THEN -1
    ELSE IF x.p[1] > 0 THEN 1 ELSE IF x.p[1] < 0 THEN -1 ELSE 0
Signed(s) == IF s > 0 THEN Inf ELSE IF s < 0 THEN NegInf ELSE FloatNaN

\* x / y.  A Python float raises ZeroDivisionError on a zero divisor; a
\* numpy.float64, which is what a row of a float64 table holds, gives inf,
\* -inf or nan (and a warning).
TrueDiv(dtype, x, y) ==
    IF Raised(x) THEN x ELSE IF Raised(y) THEN y
    ELSE IF x.op = "nan" \/ y.op = "nan" THEN FloatNaN
    ELSE IF y.op = "rat" /\ y.p[1] = 0
      THEN IF dtype = "object" THEN Exception("ZeroDivisionError")
           ELSE Signed(SignOf(x))
    ELSE IF IsInfinite(x) /\ IsInfinite(y) THEN FloatNaN
    ELSE IF IsInfinite(x) THEN Signed(SignOf(x) * SignOf(y))
    ELSE IF IsInfinite(y) THEN Float(0)
    ELSE Rat(x.p[1] * y.p[2], x.p[2] * y.p[1])

\* x * y
Mul(x, y) ==
    IF Raised(x) THEN x ELSE IF Raised(y) THEN y
    ELSE IF x.op = "nan" \/ y.op = "nan" THEN FloatNaN
    ELSE IF IsInfinite(x) \/ IsInfinite(y) THEN Signed(SignOf(x) * SignOf(y))
    ELSE Rat(x.p[1] * y.p[1], x.p[2] * y.p[2])

\* x + y
Plus(x, y) ==
    IF Raised(x) THEN x ELSE IF Raised(y) THEN y
    ELSE IF x.op = "nan" \/ y.op = "nan" THEN FloatNaN
    ELSE IF IsInfinite(x) /\ IsInfinite(y) THEN (IF x = y THEN x ELSE FloatNaN)
    ELSE IF IsInfinite(x) THEN x
    ELSE IF IsInfinite(y) THEN y
    ELSE Rat(x.p[1] * y.p[2] + y.p[1] * x.p[2], x.p[2] * y.p[2])

\* -x, x - y, abs(x)
Negate(x) == Mul(x, Float(-1))
Sub(x, y) == Plus(x, Negate(y))
AbsOf(x) == IF SignOf(x) < 0 THEN Negate(x) ELSE x

\* x ** 0.5 of a number that is not negative
Sqrt(x) ==
    IF Raised(x) \/ x.op \in {"nan", "inf"} THEN x
    ELSE IF SignOf(x) < 0 THEN FloatNaN
    ELSE Val("sqrt", x.p)

\* x * y where y is a square root
MulSqrt(x, y) ==
    IF Raised(x) THEN x ELSE IF Raised(y) THEN y
    ELSE IF x.op = "nan" \/ y.op = "nan" THEN FloatNaN
    ELSE IF IsInfinite(x) \/ IsInfinite(y)
      THEN Signed(SignOf(x) * (IF y.p[1] = 0 /\ y.op = "sqrt" THEN 0 ELSE 1))
    ELSE Val(IF SignOf(x) < 0 THEN "-sqrt" ELSE "sqrt",
             Norm(x.p[1] * x.p[1] * y.p[1], x.p[2] * x.p[2] * y.p[2]))

\* math.log(x): a domain error at zero and below
Log(x) ==
    IF Raised(x) \/ x.op \in {"nan", "inf"} THEN x
    ELSE IF SignOf(x) <= 0 THEN Exception("ValueError")
    ELSE Val("ln", x.p)

\* try: ... except (names): return None
Except(x, names) == IF x.op \in names THEN None ELSE x

\* v <= 0 and abs(v) < abs(w), for fractions
NotPositive(v) == v.op = "rat" /\ v.p[1] <= 0
AbsLess(v, w) == FracLess(AbsOf(v).p, AbsOf(w).p)

---------------------------------------------------------------------------
(* An Analysis table is [dtype, cols, rows]: how pandas stores its columns *)
(* ("object" as a sweep leaves them, holding Python floats; "float64" as a *)
(* file reader leaves them), the column labels, and the rows, each a       *)
(* function from the labels to values.                                     *)

SecondaryColumns == {"secondary " \o c : c \in Columns}
Has(self, c) == c \in self.cols
ColumnOf(rows, c) == [x \in 1..Len(rows) |-> rows[x][c]]

\* pv = volt[volt <= 0], line 72, and nv = volt[volt <= 0], line 73
pv(volt) == SelectSeq(volt, NotPositive)
nv(volt) == SelectSeq(volt, NotPositive)

\* min(seq, key=abs): the first of the elements of least magnitude
MinByAbs(seq) ==
    seq[CHOOSE x \in 1..Len(seq) :
          /\ \A y \in 1..Len(seq) : ~AbsLess(seq[y], seq[x])
          /\ \A y \in 1..(x - 1) : AbsLess(seq[x], seq[y])]

\* df.at[v, c] once 'voltage' is the index
At(rows, v, c) == rows[CHOOSE x \in 1..Len(rows) : rows[x]["voltage"] = v][c]

\* find_zero(df), lines 70-86; min() of an empty selection raises ValueError
find_zero(rows) ==
    LET volt == ColumnOf(rows, "voltage") IN
    IF Len(pv(volt)) = 0 \/ Len(nv(volt)) = 0 THEN Exception("ValueError")
    ELSE LET min_pv == MinByAbs(pv(volt))
             min_nv == MinByAbs(nv(volt))
             min_nc == At(rows, min_nv, "current")
             min_pc == At(rows, min_pv, "current")
         IN  IF AbsLess(min_nv, min_pv) THEN min_pc
             ELSE IF AbsLess(min_pv, min_nv) THEN min_nc
             ELSE TrueDiv("float64", Plus(min_nc, min_pc), Float(2))

\* Series.unique(): the values in order of first appearance
RECURSIVE Unique(_)
Unique(seq) ==
    IF Len(seq) = 0 THEN <<>>
    ELSE LET most == Unique(SubSeq(seq, 1, Len(seq) - 1))
             last == seq[Len(seq)]
         IN  IF \E x \in 1..Len(most) : most[x] = last THEN most ELSE Append(most, last)

RECURSIVE Sum(_)
Sum(seq) == IF Len(seq) = 0 THEN Float(0) ELSE Plus(Sum(Tail(seq)), Head(seq))

\* vals.mean()
Mean(seq) == TrueDiv("float64", Sum(seq), Float(Len(seq)))

\* the rows whose secondary voltage is sv
Level(rows, sv) == SelectSeq(rows, LAMBDA r : r["secondary voltage"] = sv)

\* the offset zero() subtracts: lines 88-96
Calibration(self) ==
    IF Has(self, "secondary voltage")
      THEN LET voltages_ == Unique(ColumnOf(self.rows, "secondary voltage"))
               vals == [x \in 1..Len(voltages_) |-> find_zero(Level(self.rows, voltages_[x]))]
           IN  Mean(vals)
      ELSE find_zero(self.rows)

\* mutant: the receiver always takes the result
Assign_Always(self, new, inplace) == [self EXCEPT !.rows = new.rows]

\* if inplace: self.loc[:, :] = new
Assign(self, new, inplace) == IF inplace THEN [self EXCEPT !.rows = new.rows] ELSE self

\* Analysis.zero: the receiver afterwards, what is returned, how it ended
zero(self, inplace) ==
    LET cal == Calibration(self) IN
    IF Raised(cal) THEN [self |-> self, out |-> NoTable, outcome |-> cal.op]
    ELSE LET op == [self EXCEPT !.rows =
                      [x \in 1..Len(self.rows) |->
                          [self.rows[x] EXCEPT !["current"] = Sub(@, cal)]]]
         IN  [self |-> Assign(self, op, inplace), out |-> op, outcome |-> "ok"]

\* mutant: a current is replaced by minus its magnitude
Inverted_Magnitude(x) == Negate(AbsOf(x))

\* Series.mul(-1) on one value
Inverted(x) == Mul(x, Float(-1))

\* Analysis.invert_current
invert_current(self, primary, secondary, inplace) ==
    LET output == [self EXCEPT !.rows =
                     [x \in 1..Len(self.rows) |->
                        [c \in self.cols |->
                           IF c = "current" /\ primary THEN Inverted(self.rows[x][c])
                           ELSE IF c = "secondary current" /\ secondary
                             THEN Inverted(self.rows[x][c])
                           ELSE self.rows[x][c]]]]
    IN  [self |-> Assign(self, output, inplace), out |-> output, outcome |-> "ok"]

\* the transforms of fowler_nordheim_transform, lines 131-154; dtype says
\* what kind of float a row hands them
x_transform(dtype, voltage) ==
    Except(TrueDiv(dtype, Float(1), voltage), {"ZeroDivisionError"})

x_sd(dtype, voltage, voltage_sd) ==
    Except(MulSqrt(TrueDiv(dtype, Float(1), voltage), Sqrt(voltage_sd)),
           {"ZeroDivisionError"})

y_transform(dtype, voltage, current_) ==
    Except(Log(AbsOf(TrueDiv(dtype, current_, Mul(voltage, voltage)))),
           {"ValueError", "ZeroDivisionError"})

y_sd(dtype, current_, current_sd, voltage, voltage_sd) ==
    LET u == Mul(TrueDiv(dtype, Float(2), voltage), voltage_sd)
        w == Mul(TrueDiv(dtype, Float(1), current_), current_sd)
    IN  Except(Sqrt(Plus(Mul(u, u), Mul(w, w))), {"ZeroDivisionError"})

FnColumns == {"fn_x", "fn_x sd", "fn_y", "fn_y sd"}

\* Analysis.fowler_nordheim_transform with its default column names
fowler_nordheim_transform(self) ==
    LET fn(r) ==
          [c \in FnColumns \cup (self.cols \cap {"secondary voltage"}) |->
             CASE c = "fn_x" -> x_transform(self.dtype, r["voltage"])
               [] c = "fn_x sd" -> x_sd(self.dtype, r["voltage"], r["voltage sd"])
               [] c = "fn_y" -> y_transform(self.dtype, r["voltage"], r["current"])
               [] c = "fn_y sd" -> y_sd(self.dtype, r["current"], r["current sd"],
                                        r["voltage"], r["voltage sd"])
               [] OTHER -> r[c]]
        out == [dtype |-> "float64",
                cols |-> FnColumns \cup (self.cols \cap {"secondary voltage"}),
                rows |-> [x \in 1..Len(self.rows) |-> fn(self.rows[x])]]
        raised == {name \in Exceptions :
                     \E x \in 1..Len(out.rows) : \E c \in out.cols : out.rows[x][c].op = name}
    IN  IF raised = {} THEN [self |-> self, out |-> out, outcome |-> "ok"]
        ELSE [self |-> self, out |-> NoTable, outcome |-> CHOOSE name \in raised : TRUE]

---------------------------------------------------------------------------
(* Files.  A path is known by its suffix; the disk maps every path to the  *)
(* file there, Absent when there is none.                                  *)

Paths == {".csv", ".xlsx", ".pkl", ".parquet", ".fea", ".feather", ".txt", ""}
Absent == [format |-> "", index |-> <<>>, table |-> NoTable]
EmptyDisk == [p \in Paths |-> Absent]
\* a file some other program left
Foreign == [format |-> "text", index |-> <<>>, table |-> NoTable]

\* mutant: any other suffix is written as text
Format_TextByDefault(suffix) ==
    CASE suffix = ".xlsx" -> "xlsx"
      [] suffix = ".pkl" -> "pkl"
      [] suffix = ".parquet" -> "parquet"
      [] suffix \in {".fea", ".feather"} -> "feather"
      [] OTHER -> "csv"

\* match path.suffix: the cases of read and write, "" for case _
Format(suffix) ==
    CASE suffix = ".csv" -> "csv"
      [] suffix = ".xlsx" -> "xlsx"
      [] suffix = ".pkl" -> "pkl"
      [] suffix = ".parquet" -> "parquet"
      [] suffix \in {".fea", ".feather"} -> "feather"
      [] OTHER -> ""

\* Analysis.voltage_index: the labels that become the index
voltage_index(self) ==
    IF Has(self, "secondary voltage") THEN <<"voltage", "secondary voltage">>
                                      ELSE <<"voltage">>

\* Analysis.write: the disk afterwards, how it ended, the file operations
\* done.  Feather takes the index back into the columns before writing.
write(self, path, disk) ==
    IF Format(path) = ""
      THEN [disk |-> disk, outcome |-> "ValueError", io |-> 0]
      ELSE [disk |-> [disk EXCEPT ![path] =
                        [format |-> Format(path),
                         index |-> IF Format(path) = "feather" THEN <<>>
                                   ELSE voltage_index(self),
                         table |-> self]],
            outcome |-> "ok", io |-> 1]

\* the storage of the columns a reader builds: pickle keeps the table's
\* own, the other formats hold numbers and give float64
ReadDtype(file) == IF file.format = "pkl" THEN file.table.dtype ELSE "float64"

\* Analysis.read: what is returned, how it ended, the file operations done;
\* every case ends with the index back among the columns.  An .xlsx file
\* with a secondary voltage is read a second time.
read(path, disk) ==
    IF Format(path) = ""
      THEN [out |-> NoTable, outcome |-> "ValueError", io |-> 0]
    ELSE IF disk[path] = Absent
      THEN [out |-> NoTable, outcome |-> "FileNotFoundError", io |-> 1]
    ELSE [out |-> [disk[path].table EXCEPT !.dtype = ReadDtype(disk[path])],
          outcome |-> "ok",
          io |-> IF Format(path) = "xlsx" /\ Has(disk[path].table, "secondary voltage")
                   THEN 2 ELSE 1]

---------------------------------------------------------------------------
(* The Analysis specification: one operation on a table of bounded size.   *)
(* The rows of a table differ in voltage (a dual table: in the pair of     *)
(* voltage and secondary voltage), as the rows of a sweep over distinct    *)
(* points do.                                                              *)

Dtypes == {"object", "float64"}
Voltages == {Float(-1), Float(0), Float(2)}
Currents == {Float(-5), Float(0), Float(8)}
SecondaryVoltages == {Float(0), Float(1)}
Deviation == Float(1)
SecondaryCurrent == Float(3)

SingleRows ==
    {[col \in Columns |->
        CASE col = "voltage" -> v [] col = "current" -> c [] OTHER -> Deviation] :
     v \in Voltages, c \in Currents}

DualRows ==
    {[col \in Columns \cup SecondaryColumns |->
        CASE col = "voltage" -> v
          [] col = "current" -> c
          [] col = "secondary voltage" -> sv
          [] col = "secondary current" -> SecondaryCurrent
          [] OTHER -> Deviation] :
     v \in Voltages, c \in Currents, sv \in SecondaryVoltages}

RowSeqs(rowset, key) ==
    UNION {{rs \in [1..n -> rowset] :
              \A x \in 1..n : \A y \in 1..n :
                  (x # y) => \E c \in key : rs[x][c] # rs[y][c]} : n \in 1..MaxRows}

Tables ==
    {[dtype |-> d, cols |-> Columns, rows |-> rs] :
        d \in Dtypes, rs \in RowSeqs(SingleRows, {"voltage"})}
    \cup
    {[dtype |-> d, cols |-> Columns \cup SecondaryColumns, rows |-> rs] :
        d \in Dtypes, rs \in RowSeqs(DualRows, {"voltage", "secondary voltage"})}

InitAnalysis ==
    /\ analysis \in Tables
    /\ files \in {EmptyDisk, [EmptyDisk EXCEPT ![".txt"] = Foreign]}
    /\ opcall = NoOp
    /\ pts = [data |-> <<>>, scale |-> ""]
    /\ call = NoCall
    /\ pc = "off"
    /\ Unconstructed
    /\ GenIdle

Idle == opcall.op = "none"

\* analysis.zero(inplace)
Zero ==
    /\ Idle
    /\ \E inplace \in BOOLEAN :
        LET r == zero(analysis, inplace) IN
        /\ analysis' = r.self
        /\ opcall' = [NoOp EXCEPT !.op = "zero", !.inplace = inplace,
                                  !.outcome = r.outcome, !.before = analysis,
                                  !.out = r.out]
    /\ UNCHANGED <<pointVars, sweepVars, genVars, files>>

\* analysis.invert_current(primary, secondary, inplace)
InvertCurrent ==
    /\ Idle
    /\ \E primary \in BOOLEAN, secondary \in BOOLEAN, inplace \in BOOLEAN :
        LET r == invert_current(analysis, primary, secondary, inplace) IN
        /\ analysis' = r.self
        /\ opcall' = [NoOp EXCEPT !.op = "invert_current", !.primary = primary,
                                  !.secondary = secondary, !.inplace = inplace,
                                  !.outcome = r.outcome, !.before = analysis,
                                  !.out = r.out]
    /\ UNCHANGED <<pointVars, sweepVars, genVars, files>>

\* invert_current with the same flags on the table the first call returned
InvertAgain ==
    /\ opcall.op = "invert_current"
    /\ opcall.again = NoTable
    /\ opcall' = [opcall EXCEPT !.again =
                    invert_current(opcall.out, opcall.primary, opcall.secondary,
                                   FALSE).out]
    /\ UNCHANGED <<pointVars, sweepVars, genVars, analysis, files>>

\* analysis.fowler_nordheim_transform()
FowlerNordheimTransform ==
    /\ Idle
    /\ LET r == fowler_nordheim_transform(analysis) IN
        /\ analysis' = r.self
        /\ opcall' = [NoOp EXCEPT !.op = "fowler_nordheim_transform",
                                  !.outcome = r.outcome, !.before = analysis,
                                  !.out = r.out]
    /\ UNCHANGED <<pointVars, sweepVars, genVars, files>>

\* analysis.write(path)
Write ==
    /\ Idle
    /\ \E path \in Paths :
        LET r == write(analysis, path, files) IN
        /\ files' = r.disk
        /\ opcall' = [NoOp EXCEPT !.op = "write", !.path = path,
                                  !.outcome = r.outcome, !.before = analysis,
                                  !.io = r.io, !.disk = files]
    /\ UNCHANGED <<pointVars, sweepVars, genVars, analysis>>

\* Analysis.read(path), of a path never written or of the path just written
Read ==
    /\ \E path \in Paths :
        /\ Idle \/ (opcall.op = "write" /\ opcall.outcome = "ok" /\ opcall.path = path)
        /\ LET r == read(path, files) IN
           opcall' = [NoOp EXCEPT !.op = "read", !.path = path,
                                  !.outcome = r.outcome, !.before = analysis,
                                  !.out = r.out, !.io = r.io, !.disk = files]
    /\ UNCHANGED <<pointVars, sweepVars, genVars, analysis, files>>

NextAnalysis ==
    \/ Zero
    \/ InvertCurrent
    \/ InvertAgain
    \/ FowlerNordheimTransform
    \/ Write
    \/ Read

SpecAnalysis == InitAnalysis /\ [][NextAnalysis]_vars

---------------------------------------------------------------------------
(* Properties of Analysis.                                                 *)

NotNegative(v) == v.op = "rat" /\ v.p[1] >= 0
Before == opcall.before
Result == opcall.out

\* the offset as the claim describes it: the current at the voltage closest
\* to zero from below or at the one closest from above, whichever voltage
\* has the larger magnitude, their average when the magnitudes are equal
StatedOffset(rows) ==
    LET volt == ColumnOf(rows, "voltage")
        below == MinByAbs(SelectSeq(volt, NotPositive))
        above == MinByAbs(SelectSeq(volt, NotNegative))
    IN  IF AbsLess(below, above) THEN At(rows, above, "current")
        ELSE IF AbsLess(above, below) THEN At(rows, below, "current")
        ELSE TrueDiv("float64", Plus(At(rows, below, "current"),
                                     At(rows, above, "current")), Float(2))

TwoSided(rows) ==
    /\ \E x \in 1..Len(rows) : NotPositive(rows[x]["voltage"])
    /\ \E x \in 1..Len(rows) : NotNegative(rows[x]["voltage"])

\* C14: zero() on a single-sweep table takes the voltage closest to zero
\* among those <= 0 and the one closest among those >= 0, takes as offset
\* the current at whichever of the two has the larger magnitude (the
\* average when equal) and subtracts it from every current; for the rows
\* (-1, -5), (2, 8) the offset is 8, the current at the voltage farther
\* from zero.
C14_ZeroOffsetFromBothSides ==
    (/\ opcall.op = "zero"
     /\ ~Has(Before, "secondary voltage")
     /\ TwoSided(Before.rows)) =>
        /\ opcall.outcome = "ok"
        /\ \A x \in 1..Len(Before.rows) :
              Result.rows[x]["current"] =
                  Sub(Before.rows[x]["current"], StatedOffset(Before.rows))

\* C15: zero() and invert_current() without inplace leave every cell of the
\* receiver as it was and return a table; with inplace the receiver's data
\* afterwards is the data of the table returned.  A call that raises leaves
\* the receiver as it was.
C15_ReceiverChangesOnlyInplace ==
    opcall.op \in {"zero", "invert_current"} =>
        IF opcall.outcome = "ok"
          THEN /\ Result.cols = Before.cols
               /\ Len(Result.rows) = Len(Before.rows)
               /\ IF opcall.inplace THEN analysis.rows = Result.rows
                                    ELSE analysis = Before
          ELSE analysis = Before

C15_Witness ==
    /\ opcall.op = "zero" /\ opcall.outcome = "ok" /\ opcall.inplace
    /\ Has(Before, "secondary voltage")
    /\ analysis.rows = Result.rows
    /\ analysis.rows # Before.rows

\* C16: fowler_nordheim_transform never raises, and row by row: a row whose
\* voltage is zero has the undefined marker as fn_x and as fn_y, a row whose
\* current is zero (the logarithm's argument is then not positive) has it
\* as fn_y, and every other field is fn_x = 1/voltage,
\* fn_y = ln(|current / voltage^2|).
C16_DegenerateRowsUndefined ==
    opcall.op = "fowler_nordheim_transform" =>
        /\ opcall.outcome = "ok"
        /\ \A x \in 1..Len(Before.rows) :
              LET v == Before.rows[x]["voltage"]
                  c == Before.rows[x]["current"]
              IN  IF SignOf(v) = 0
                    THEN Result.rows[x]["fn_x"] = None /\ Result.rows[x]["fn_y"] = None
                    ELSE /\ Result.rows[x]["fn_x"] = Rat(v.p[2], v.p[1])
                         /\ Result.rows[x]["fn_y"] =
                              IF SignOf(c) = 0 THEN None
                              ELSE Val("ln", Norm(Abs(c.p[1]) * v.p[2] * v.p[2],
                                                  c.p[2] * v.p[1] * v.p[1]))

StatedSuffixes == {".csv", ".xlsx", ".pkl", ".parquet", ".fea", ".feather"}

\* C17: read and write of a path whose extension is none of .csv, .xlsx,
\* .pkl, .parquet, .fea, .feather fail with an error before any I/O: no
\* file is read, created or modified and the receiver is unchanged.
C17_UnsupportedSuffixNoIO ==
    (opcall.op \in {"read", "write"} /\ opcall.path \notin StatedSuffixes) =>
        /\ opcall.outcome = "ValueError"
        /\ opcall.io = 0
        /\ files = opcall.disk
        /\ analysis = Before

\* a write to a path where another program's file is
C17_Witness ==
    /\ opcall.op = "write" /\ opcall.path = ".txt"
    /\ opcall.outcome = "ValueError"
    /\ files[".txt"] = Foreign

\* C19: invert_current multiplies every primary current by -1 when primary
\* is true, every secondary current by -1 only when secondary is true and
\* the column exists, and leaves every other cell as it was; applied a
\* second time with the same flags it gives the original table back.
C19_InvertTwiceIsIdentity ==
    opcall.op = "invert_current" =>
        /\ opcall.outcome = "ok"
        /\ Result.cols = Before.cols
        /\ Len(Result.rows) = Len(Before.rows)
        /\ \A x \in 1..Len(Before.rows) : \A c \in Before.cols :
              Result.rows[x][c] =
                  IF \/ c = "current" /\ opcall.primary
                     \/ c = "secondary current" /\ opcall.secondary
                    THEN Mul(Before.rows[x][c], Float(-1))
                    ELSE Before.rows[x][c]
        /\ opcall.again # NoTable => opcall.again.rows = Before.rows

C19_Witness ==
    /\ opcall.op = "invert_current" /\ opcall.primary /\ opcall.secondary
    /\ Has(Before, "secondary current")
    /\ Result.rows # Before.rows
    /\ opcall.again # NoTable
    /\ opcall.again.rows = Before.rows

---------------------------------------------------------------------------
(* execute() with instruments that may never raise their service request.  *)

\* wait_for_srq(timeout=None): the service request never arrives and the
\* call waits for ever
MeterHang ==
    \E t \in tasks :
        /\ t.state = "waiting"
        /\ UpdateTask(t, [t EXCEPT !.state = "hung"])
        /\ UNCHANGED <<libraryVars, kind, cfg, pc, mpc, soak, meters, voltages, df,
                       i, j, locals, ret, slept, hist>>

\* the statements of the thread that called execute()
Orchestrate ==
    \/ EnableOutput
    \/ LoopHeader
    \/ SetVoltage
    \/ Sleep
    \/ MeasureSubmit
    \/ MeasureResult
    \/ MeasureMerge
    \/ MeasureStore
    \/ MeasurePut
    \/ MeasureExit
    \/ Shutdown
    \/ Return

\* the sweep is constructed with a soak time, as a sweep that measures is
ConstructLive == Construct /\ cfg'.soak # 0

NextLive ==
    \/ ConstructLive
    \/ Orchestrate
    \/ MeterStart
    \/ MeterFinish
    \/ MeterFail
    \/ MeterHang

\* the calling thread and the worker threads of the pool keep running, and an
\* instrument that neither fails nor hangs raises its service request
Fairness ==
    /\ WF_vars(Orchestrate)
    /\ WF_vars(MeterStart)
    /\ WF_vars(MeterFinish)

SpecLive == Init /\ [][NextLive]_vars /\ Fairness

---------------------------------------------------------------------------
(* Properties of execute() when a measure() call fails or never returns.   *)

MeasureFailed == hist.failedStep # -1

\* the voltages the loop set last: those of the step that is running
LastTarget(m) ==
    IF m = "primary" THEN voltages.primary[i + 1] ELSE voltages.secondary[j + 1]

\* C21: the shutdown of execute() runs on the happy path only.  Once a
\* measure() has failed at step k, execute() sets no target to zero and
\* switches no output off: it ends by raising, every source-meter output it
\* enabled is still enabled and still has the last target voltage set in
\* the loop, and no target was set beyond those of the loop.
C21_NoShutdownAfterFailure ==
    MeasureFailed =>
        /\ pc \in {"unwind", "raised"}
        /\ hist.failedStep = StepIndex
        /\ \A m \in UsedSourceMeters :
              /\ meters[m].output
              /\ meters[m].enables = 1
              /\ meters[m].target = LastTarget(m)
        /\ meters["primary"].sets = i + 1
        /\ IsDual(kind) => meters["secondary"].sets = StepIndex + 1

\* a dual sweep that raised in its second step with both targets not zero
C21_Witness ==
    /\ kind = "DualSweep" /\ pc = "raised"
    /\ hist.failedStep = 1
    /\ \A m \in UsedSourceMeters : meters[m].output /\ ~IsZero(meters[m].target)

Executing == pc \notin {"new", "off", "init_raised", "ready", "raised", "returned"}
Hung == \E t \in tasks : t.state = "hung"
Responding == \A t \in tasks : t.state \notin {"failed", "hung"}

\* execute() has returned after one measure() per instrument per step, with
\* every output switched off
ReturnedComplete ==
    /\ pc = "returned"
    /\ \A m \in UsedMeters : meters[m].nMeas = Steps /\ meters[m].nDone = Steps
    /\ \A m \in UsedSourceMeters : ~meters[m].output

\* execute() is inside measure() at the step of the call that hangs, with
\* every output still enabled and not one shutdown statement executed
Stuck ==
    /\ pc \in {"measure", "unwind"}
    /\ \A t \in tasks : t.state = "hung" => t.step = StepIndex
    /\ \A m \in UsedSourceMeters : meters[m].output /\ meters[m].enables = 1
    /\ meters["primary"].sets = i + 1

\* C22: execute() terminates exactly when every instrument responds.  While
\* no measure() call fails or hangs, a running execute() leads to its return
\* with exactly one measure() per instrument per step performed and all
\* outputs disabled; once a measure() call hangs it hangs for ever, and
\* execute() stays in measure() at that step: it never returns and the
\* outputs stay enabled.
C22_TerminatesIffInstrumentsRespond ==
    /\ Executing ~> (ReturnedComplete \/ ~Responding)
    /\ [](Hung => Stuck)
    /\ [][\A t \in tasks : t.state = "hung" => t \in tasks' /\ StepIndex' = t.step]_vars

\* a dual sweep whose secondary instrument hangs in the second step, after
\* the primary reading of that step arrived
C22_Witness ==
    /\ kind = "DualSweep" /\ pc = "measure" /\ StepIndex = 1
    /\ \E t \in tasks : t.meter = "secondary" /\ t.state = "hung"
    /\ \E t \in tasks : t.meter = "primary" /\ t.state = "done"

=============================================================================
